---- MODULE Spec2Model ----
(***************************************************************************)
(* Merkle Patricia Trie of src/index.ts (class MerklePatriciaTrie).        *)
(*                                                                         *)
(* Strings are sequences of one-character strings, nibbles are the         *)
(* one-character lowercase hex strings the code keeps, nodes are records   *)
(* with the fields of the TypeScript interfaces.  keccak256 is modelled    *)
(* as an injective constructor over the hashed content string.             *)
(***************************************************************************)
EXTENDS Integers, Sequences, FiniteSets, TLC

VARIABLES root, prev, log

vars == <<root, prev, log>>

(***************************************************************************)
(* Bounds of the model.                                                    *)
(***************************************************************************)
NumKeys == 6
MaxInserts == 4
MaxDemoInserts == 4

(***************************************************************************)
(* NodeType (index.ts:4-9).                                                *)
(***************************************************************************)
EXTENSION == 0
EXTENSION_ODD == 1
LEAF_EVEN == 2
LEAF_ODD == 3

(***************************************************************************)
(* JavaScript values: null for a node reference and null for a string.     *)
(* A string is a sequence of one-character strings, so the one-element     *)
(* sequence below is no string.                                            *)
(***************************************************************************)
NullNode == [type |-> "null"]
null == <<"null">>

\* !node for a node reference
IsNull(node) == node.type = "null"

HexChars == <<"0", "1", "2", "3", "4", "5", "6", "7",
              "8", "9", "a", "b", "c", "d", "e", "f">>
UpperHex == <<"A", "B", "C", "D", "E", "F">>

\* parseInt(c, 16) of a one-character hex string
ParseInt16(c) == CHOOSE i \in 0..15 : HexChars[i + 1] = c

\* (n).toString(16) of n in 0..15
ToString16(n) == HexChars[n + 1]

\* the character class [0-9a-fA-F] of the regular expression
IsHexChar(c) ==
  \/ \E i \in 1..16 : HexChars[i] = c
  \/ \E i \in 1..6 : UpperHex[i] = c

\* String.prototype.toLowerCase on one character of the class above
ToLowerCase(c) ==
  IF \E i \in 1..6 : UpperHex[i] = c
  THEN HexChars[10 + (CHOOSE i \in 1..6 : UpperHex[i] = c)]
  ELSE c

\* String.prototype.charCodeAt for the characters the model uses
CharCodeAt(c) ==
  CASE c = "!" -> 33
    [] c = "x" -> 120
    [] c = "y" -> 121
    [] c = "z" -> 122
    [] c \in {"0", "1", "2", "3", "4", "5", "6", "7", "8", "9"} -> 48 + ParseInt16(c)
    [] c \in {"a", "b", "c", "d", "e", "f"} -> 87 + ParseInt16(c)
    [] OTHER -> 55 + ParseInt16(ToLowerCase(c))

\* array.slice(from)
Slice(s, from) == SubSeq(s, from + 1, Len(s))

\* array.slice(0, to)
Take(s, to) == SubSeq(s, 1, IF to < Len(s) THEN to ELSE Len(s))

stringToNibbles(str) ==
  IF Len(str) > 0 /\ \A i \in 1..Len(str) : IsHexChar(str[i])
  THEN [i \in 1..Len(str) |-> ToLowerCase(str[i])]
  ELSE [i \in 1..(2 * Len(str)) |->
          LET byte == CharCodeAt(str[(i + 1) \div 2])
          IN  IF i % 2 = 1
              THEN ToString16((byte \div 16) % 16)
              ELSE ToString16(byte % 16)]

encodePrefix(nibbles, isLeaf) ==
  LET isOdd == Len(nibbles) % 2 = 1
      prefix == IF isLeaf
                THEN (IF isOdd THEN LEAF_ODD ELSE LEAF_EVEN)
                ELSE (IF isOdd THEN EXTENSION_ODD ELSE EXTENSION)
  IN  [prefix |-> prefix,
       encodedNibbles |-> IF isOdd THEN <<"0">> \o nibbles ELSE nibbles]

Min(a, b) == IF a < b THEN a ELSE b

findCommonPrefix(nibbles1, nibbles2) ==
  LET minLength == Min(Len(nibbles1), Len(nibbles2))
      agree(n) == \A i \in 1..n : nibbles1[i] = nibbles2[i]
      n == CHOOSE m \in 0..minLength :
             agree(m) /\ (m = minLength \/ nibbles1[m + 1] # nibbles2[m + 1])
  IN  SubSeq(nibbles1, 1, n)

createBranchNode(value) ==
  [type |-> "branch", children |-> [i \in 0..15 |-> NullNode], value |-> value]

createExtensionNode(sharedNibbles, nextNode) ==
  [type |-> "extension",
   prefix |-> encodePrefix(sharedNibbles, FALSE).prefix,
   sharedNibbles |-> sharedNibbles,
   nextNode |-> nextNode]

createLeafNode(keyEnd, value) ==
  [type |-> "leaf",
   prefix |-> encodePrefix(keyEnd, TRUE).prefix,
   keyEnd |-> keyEnd,
   value |-> value]

(***************************************************************************)
(* Hashing: the content string is a sequence of atoms, a character         *)
(* Ch(c) or a digest; keccak256 of a content is one atom that determines   *)
(* the content (no collisions).                                            *)
(***************************************************************************)
Ch(c) == <<"ch", c>>
Chars(s) == [i \in 1..Len(s) |-> Ch(s[i])]
keccak256(data) == <<"keccak256", data>>

\* `${prefix}` of a prefix number 0..3
PrefixChars(p) == <<Ch(ToString16(p))>>

RECURSIVE JoinFrom(_, _)
\* childHashes.join('') from slot i on: an empty slot contributes ''
JoinFrom(hashes, i) ==
  IF i > 15 THEN <<>> ELSE hashes[i] \o JoinFrom(hashes, i + 1)

RECURSIVE calculateNodeHash(_)
calculateNodeHash(node) ==
  LET nodeData ==
        CASE node.type = "branch" ->
               LET childHashes ==
                     [i \in 0..15 |->
                        IF ~IsNull(node.children[i])
                        THEN <<calculateNodeHash(node.children[i])>>
                        ELSE <<>>]
               IN  JoinFrom(childHashes, 0)
                     \o (IF node.value = null THEN <<>> ELSE Chars(node.value))
          [] node.type = "extension" ->
               PrefixChars(node.prefix) \o Chars(node.sharedNibbles)
                 \o <<calculateNodeHash(node.nextNode)>>
          [] node.type = "leaf" ->
               PrefixChars(node.prefix) \o Chars(node.keyEnd) \o Chars(node.value)
          [] OTHER -> <<>>
  IN  keccak256(nodeData)

\* getRootHash returning the empty string, not its hash, for the empty trie
getRootHashEmptyString(r) ==
  IF IsNull(r) THEN <<>> ELSE calculateNodeHash(r)

getRootHash(r) ==
  IF IsNull(r) THEN keccak256(<<>>) ELSE calculateNodeHash(r)

(***************************************************************************)
(* Insertion (index.ts:163-283).                                           *)
(***************************************************************************)
\* insertIntoLeaf returning the new branch without the extension over the
\* common prefix
insertIntoLeafNoWrap(leafNode, remainingKey, value) ==
  LET leafKeyNibbles == leafNode.keyEnd
      commonPrefix == findCommonPrefix(leafKeyNibbles, remainingKey)
      c == Len(commonPrefix)
      leafRemainingKey == Slice(leafKeyNibbles, c)
      newRemainingKey == Slice(remainingKey, c)
      b0 == createBranchNode(null)
      b1 == IF c < Len(leafKeyNibbles)
            THEN [b0 EXCEPT !.children[ParseInt16(leafRemainingKey[1])] =
                    createLeafNode(Slice(leafRemainingKey, 1), leafNode.value)]
            ELSE b0
      b2 == IF c < Len(remainingKey)
            THEN [b1 EXCEPT !.children[ParseInt16(newRemainingKey[1])] =
                    createLeafNode(Slice(newRemainingKey, 1), value)]
            ELSE b1
  IN  IF c = Len(leafKeyNibbles) /\ c = Len(remainingKey)
      THEN createLeafNode(remainingKey, value)
      ELSE b2

insertIntoLeaf(leafNode, remainingKey, value) ==
  LET leafKeyNibbles == leafNode.keyEnd
      commonPrefix == findCommonPrefix(leafKeyNibbles, remainingKey)
      c == Len(commonPrefix)
      leafRemainingKey == Slice(leafKeyNibbles, c)
      newRemainingKey == Slice(remainingKey, c)
      b0 == createBranchNode(null)
      b1 == IF c < Len(leafKeyNibbles)
            THEN [b0 EXCEPT !.children[ParseInt16(leafRemainingKey[1])] =
                    createLeafNode(Slice(leafRemainingKey, 1), leafNode.value)]
            ELSE b0
      b2 == IF c < Len(remainingKey)
            THEN [b1 EXCEPT !.children[ParseInt16(newRemainingKey[1])] =
                    createLeafNode(Slice(newRemainingKey, 1), value)]
            ELSE b1
  IN  IF c = Len(leafKeyNibbles) /\ c = Len(remainingKey)
      THEN createLeafNode(remainingKey, value)
      ELSE IF c > 0
           THEN createExtensionNode(commonPrefix, b2)
           ELSE b2

RECURSIVE insertRecursive(_, _, _, _)
RECURSIVE insertIntoExtension(_, _, _, _)
RECURSIVE insertIntoBranch(_, _, _)

\* insertIntoExtension wrapping the re-homed child in an Extension over the
\* rest of the old run even when one nibble of it was left
insertIntoExtensionAlwaysWrap(extNode, remainingKey, value, depth) ==
  LET extNibbles == extNode.sharedNibbles
      commonPrefix == findCommonPrefix(extNibbles, remainingKey)
      c == Len(commonPrefix)
      extRemainingKey == Slice(extNibbles, c)
      newRemainingKey == Slice(remainingKey, c)
      b0 == createBranchNode(null)
      b1 == IF Len(extRemainingKey) > 0
            THEN [b0 EXCEPT !.children[ParseInt16(extRemainingKey[1])] =
                    createExtensionNode(Slice(extRemainingKey, 1), extNode.nextNode)]
            ELSE b0
      b2 == IF Len(newRemainingKey) > 0
            THEN [b1 EXCEPT !.children[ParseInt16(newRemainingKey[1])] =
                    createLeafNode(newRemainingKey, value)]
            ELSE b1
  IN  IF c = Len(extNibbles)
      THEN createExtensionNode(extNibbles,
             insertRecursive(extNode.nextNode, Slice(remainingKey, c), value, 0))
      ELSE IF c > 0
           THEN createExtensionNode(commonPrefix, b2)
           ELSE b2

insertIntoExtension(extNode, remainingKey, value, depth) ==
  LET extNibbles == extNode.sharedNibbles
      commonPrefix == findCommonPrefix(extNibbles, remainingKey)
      c == Len(commonPrefix)
      extRemainingKey == Slice(extNibbles, c)
      newRemainingKey == Slice(remainingKey, c)
      b0 == createBranchNode(null)
      b1 == IF Len(extRemainingKey) > 0
            THEN [b0 EXCEPT !.children[ParseInt16(extRemainingKey[1])] =
                    IF Len(extRemainingKey) > 1
                    THEN createExtensionNode(Slice(extRemainingKey, 1), extNode.nextNode)
                    ELSE extNode.nextNode]
            ELSE b0
      b2 == IF Len(newRemainingKey) > 0
            THEN [b1 EXCEPT !.children[ParseInt16(newRemainingKey[1])] =
                    createLeafNode(newRemainingKey, value)]
            ELSE b1
  IN  IF c = Len(extNibbles)
      THEN createExtensionNode(extNibbles,
             insertRecursive(extNode.nextNode, Slice(remainingKey, c), value, 0))
      ELSE IF c > 0
           THEN createExtensionNode(commonPrefix, b2)
           ELSE b2

insertIntoBranch(branchNode, remainingKey, value) ==
  IF Len(remainingKey) = 0
  THEN [branchNode EXCEPT !.value = value]
  ELSE LET index == ParseInt16(remainingKey[1])
           restKey == Slice(remainingKey, 1)
       IN  IF IsNull(branchNode.children[index])
           THEN [branchNode EXCEPT !.children[index] =
                   createLeafNode(remainingKey, value)]
           ELSE [branchNode EXCEPT !.children[index] =
                   insertRecursive(branchNode.children[index], restKey, value, 0)]

insertRecursive(node, keyNibbles, value, depth) ==
  LET remainingKey == Slice(keyNibbles, depth)
  IN  CASE node.type = "leaf" -> insertIntoLeaf(node, remainingKey, value)
        [] node.type = "extension" ->
             insertIntoExtension(node, remainingKey, value, depth)
        [] node.type = "branch" -> insertIntoBranch(node, remainingKey, value)

\* the root after insert(key, value) on a trie whose root is r
insert(r, key, value) ==
  LET keyNibbles == stringToNibbles(key)
  IN  IF IsNull(r)
      THEN createLeafNode(keyNibbles, value)
      ELSE insertRecursive(r, keyNibbles, value, 0)

(***************************************************************************)
(* Lookup (index.ts:286-356).                                              *)
(***************************************************************************)
arraysEqual(arr1, arr2) ==
  IF Len(arr1) # Len(arr2)
  THEN FALSE
  ELSE \A i \in 1..Len(arr1) : arr1[i] = arr2[i]

\* -1 stands for the null result
findBranchIndex(keyNibbles, depth) ==
  IF depth < 0 \/ depth >= Len(keyNibbles)
  THEN -1
  ELSE ParseInt16(keyNibbles[depth + 1])

RECURSIVE getRecursive(_, _, _)
getRecursive(node, keyNibbles, depth) ==
  LET remainingKey == Slice(keyNibbles, depth)
  IN  CASE node.type = "leaf" ->
             LET leafKeyNibbles == node.keyEnd
                 branchIndex == findBranchIndex(keyNibbles, depth - 1)
                 keyToCompare ==
                   IF Len(remainingKey) < Len(leafKeyNibbles) /\ branchIndex # -1
                   THEN <<ToString16(branchIndex)>> \o remainingKey
                   ELSE remainingKey
             IN  IF arraysEqual(leafKeyNibbles, keyToCompare)
                 THEN node.value
                 ELSE null
        [] node.type = "extension" ->
             LET extNibbles == node.sharedNibbles
             IN  IF \/ Len(remainingKey) < Len(extNibbles)
                    \/ ~arraysEqual(extNibbles, Take(remainingKey, Len(extNibbles)))
                 THEN null
                 ELSE getRecursive(node.nextNode, keyNibbles, depth + Len(extNibbles))
        [] node.type = "branch" ->
             IF Len(remainingKey) = 0
             THEN node.value
             ELSE LET index == ParseInt16(remainingKey[1])
                      child == node.children[index]
                  IN  IF IsNull(child)
                      THEN null
                      ELSE getRecursive(child, keyNibbles, depth + 1)
        [] OTHER -> null

\* the result of get(key) on a trie whose root is r
get(r, key) ==
  IF IsNull(r) THEN null ELSE getRecursive(r, stringToNibbles(key), 0)

(***************************************************************************)
(* Inputs.  insert draws its key among the first NumKeys strings of        *)
(* KeyList and get among all of them.  "!" is not hexadecimal and has the  *)
(* nibbles of "21"; "A" is the hexadecimal digit a.                        *)
(***************************************************************************)
KeyList == << <<"1">>, <<"1", "2">>, <<"1", "1">>, <<"1", "1", "1">>,
              <<"1", "1", "2">>, <<"2", "1">>, <<"!">>, <<"2">>,
              <<"A">>, <<>> >>

Keys == {KeyList[i] : i \in 1..NumKeys}

QueryKeys == {KeyList[i] : i \in 1..Len(KeyList)}

Values == {<<"x">>, <<"y">>}

(***************************************************************************)
(* The demo driver's data (index.ts:415-431).                              *)
(***************************************************************************)
DemoKeys == << <<"a", "7", "1", "3", "5", "5">>,
               <<"a", "7", "7", "d", "3", "3", "7">>,
               <<"a", "7", "f", "9", "3", "6", "5">>,
               <<"a", "7", "7", "d", "3", "9", "7">> >>

DemoValues == << <<"4", "5", ".", "0", "E", "T", "H">>,
                 <<"1", ".", "0", "0", "W", "E", "I">>,
                 <<"1", ".", "1", "E", "T", "H">>,
                 <<"0", ".", "1", "2", "E", "T", "H">> >>

DemoQueries == {DemoKeys[i] : i \in 1..4} \cup {<<"x", "y", "z">>}

(***************************************************************************)
(* State machine.  root is this.root; prev is the root the last insert     *)
(* call started from; log is the sequence of insert calls made so far.     *)
(* get changes nothing: what it returns is get(root, key).                 *)
(***************************************************************************)
Init ==
  /\ root = NullNode
  /\ prev = NullNode
  /\ log = <<>>

Insert(key, value) ==
  /\ root' = insert(root, key, value)
  /\ prev' = root
  /\ log' = Append(log, [key |-> key, value |-> value])

Get(key) ==
  /\ get(root, key) \in Values \cup {DemoValues[i] : i \in 1..4} \cup {null}
  /\ UNCHANGED <<root, prev, log>>

InsertAny ==
  /\ Len(log) < MaxInserts
  /\ \E key \in Keys, value \in Values : Insert(key, value)

GetAny == \E key \in QueryKeys : Get(key)

Next == InsertAny \/ GetAny

Spec == Init /\ [][Next]_vars

DemoInsert ==
  /\ Len(log) < MaxDemoInserts
  /\ \E i \in 1..4 : Insert(DemoKeys[i], DemoValues[i])

DemoGet == \E key \in DemoQueries : Get(key)

NextDemo == DemoInsert \/ DemoGet

SpecDemo == Init /\ [][NextDemo]_vars

(***************************************************************************)
(* Vocabulary of the properties.                                           *)
(***************************************************************************)
\* the last insert call and the calls before it
LastInsert == log[Len(log)]
Earlier == SubSeq(log, 1, Len(log) - 1)

\* the nibble sequences of the keys inserted by the calls l
InsertedNibbles(l) == {stringToNibbles(l[i].key) : i \in 1..Len(l)}

\* the value the calls l gave last to the key with these nibbles, null if none
LastValue(l, nibbles) ==
  LET idx == {i \in 1..Len(l) : stringToNibbles(l[i].key) = nibbles}
  IN  IF idx = {}
      THEN null
      ELSE l[CHOOSE i \in idx : \A j \in idx : j <= i].value

\* key is stored with value v in the trie r built by the calls l
StoredWith(r, l, key, v) ==
  /\ v # null
  /\ LastValue(l, stringToNibbles(key)) = v
  /\ get(r, key) = v

IsStrictPrefix(s, t) ==
  /\ Len(s) < Len(t)
  /\ \A i \in 1..Len(s) : s[i] = t[i]

RECURSIVE RootAfter(_, _)
\* the root after the insert calls l on a trie whose root is r
RootAfter(r, l) ==
  IF l = <<>> THEN r ELSE RootAfter(insert(r, Head(l).key, Head(l).value), Tail(l))

\* the occupied slots of a branch
Occupied(branchNode) == {i \in 0..15 : ~IsNull(branchNode.children[i])}

RECURSIVE LeafPaths(_)
\* for every leaf below node: the extensions' runs, the branches' slot
\* nibbles and the leaf's run, concatenated from node down to the leaf
LeafPaths(node) ==
  CASE node.type = "leaf" -> {node.keyEnd}
    [] node.type = "extension" ->
         {node.sharedNibbles \o p : p \in LeafPaths(node.nextNode)}
    [] node.type = "branch" ->
         UNION {{<<ToString16(i)>> \o p : p \in LeafPaths(node.children[i])} :
                  i \in Occupied(node)}
    [] OTHER -> {}

RECURSIVE Shape(_)
\* the tree below node without its values: the node kinds, the extension
\* and leaf runs, the occupied slots and whether a branch holds a value
Shape(node) ==
  CASE node.type = "leaf" -> [type |-> "leaf", keyEnd |-> node.keyEnd]
    [] node.type = "extension" ->
         [type |-> "extension", sharedNibbles |-> node.sharedNibbles,
          nextNode |-> Shape(node.nextNode)]
    [] node.type = "branch" ->
         [type |-> "branch",
          children |-> [i \in 0..15 |-> Shape(node.children[i])],
          hasValue |-> node.value # null]
    [] OTHER -> NullNode

\* the occupants of a branch: its non-empty slots and its own value
Occupants(branchNode) ==
  Cardinality(Occupied(branchNode)) + (IF branchNode.value # null THEN 1 ELSE 0)

RECURSIVE Branches(_)
\* the branches at and below node
Branches(node) ==
  CASE node.type = "branch" ->
         {node} \cup UNION {Branches(node.children[i]) : i \in Occupied(node)}
    [] node.type = "extension" -> Branches(node.nextNode)
    [] OTHER -> {}

\* the key with its first digit 1 or 2 replaced by 3 or 4: under a root
\* branch the same key in another slot
ShiftKey(key) ==
  [i \in 1..Len(key) |->
     IF i = 1
     THEN (IF key[1] = "1" THEN "3" ELSE IF key[1] = "2" THEN "4" ELSE key[1])
     ELSE key[i]]

\* the insert calls l with every key shifted
ShiftLog(l) == [i \in 1..Len(l) |-> [key |-> ShiftKey(l[i].key), value |-> l[i].value]]

RECURSIVE EndsInsideExtension(_, _)
\* insert's descent from node with the remaining key reaches an Extension
\* whose shared run the remaining key is a strict prefix of
EndsInsideExtension(node, remainingKey) ==
  CASE node.type = "extension" ->
         LET c == Len(findCommonPrefix(node.sharedNibbles, remainingKey))
         IN  IF c = Len(node.sharedNibbles)
             THEN EndsInsideExtension(node.nextNode, Slice(remainingKey, c))
             ELSE c = Len(remainingKey)
    [] node.type = "branch" ->
         /\ Len(remainingKey) > 0
         /\ ~IsNull(node.children[ParseInt16(remainingKey[1])])
         /\ EndsInsideExtension(node.children[ParseInt16(remainingKey[1])],
                                Slice(remainingKey, 1))
    [] OTHER -> FALSE

RECURSIVE Extensions(_)
\* the extensions at and below node
Extensions(node) ==
  CASE node.type = "extension" -> {node} \cup Extensions(node.nextNode)
    [] node.type = "branch" ->
         UNION {Extensions(node.children[i]) : i \in Occupied(node)}
    [] OTHER -> {}

\* the branch a two-key trie is made of, under its extension if it has one
TopBranch(r) == IF r.type = "extension" THEN r.nextNode ELSE r

DemoLog == [i \in 1..4 |-> [key |-> DemoKeys[i], value |-> DemoValues[i]]]

(***************************************************************************)
(* Properties.                                                             *)
(***************************************************************************)

\* C1 (round trip): after insert(k, v), get(k) returns v.
\* Violated: insert("12", v1) then insert("1", v2) drops v2, get("1") is null.
C1_RoundTrip ==
  Len(log) > 0 => get(root, LastInsert.key) = LastInsert.value

\* C2 (independence): insert(k2, v) leaves get(k1) as it was for every key k1
\* whose nibble sequence differs from k2's.
\* Violated: insert("1", v1) then insert("12", v2) makes get("1") null.
C2_Independence ==
  Len(log) > 0 =>
    \A k1 \in QueryKeys :
      stringToNibbles(k1) # stringToNibbles(LastInsert.key)
        => get(root, k1) = get(prev, k1)

\* C3 (overwrite): when k is stored with v1, insert(k, v2) with v2 # v1 makes
\* get(k) return v2.
\* Violated when k's leaf was placed into an empty branch slot.
C3_Overwrite ==
  (/\ Len(log) > 0
   /\ \E v1 \in Values :
        /\ v1 # LastInsert.value
        /\ StoredWith(prev, Earlier, LastInsert.key, v1))
    => get(root, LastInsert.key) = LastInsert.value

\* C4 (prefix of another key): after inserting into the empty trie two keys
\* one of which is a strict prefix of the other, in either order, get returns
\* each key's value and the shorter key's value is the branch's own value.
\* Violated: the shorter key's value is dropped.
C4_PrefixOfAnotherKey ==
  (/\ Len(log) = 2
   /\ \/ IsStrictPrefix(stringToNibbles(log[1].key), stringToNibbles(log[2].key))
      \/ IsStrictPrefix(stringToNibbles(log[2].key), stringToNibbles(log[1].key)))
    => LET short == IF Len(stringToNibbles(log[1].key))
                         < Len(stringToNibbles(log[2].key))
                    THEN log[1] ELSE log[2]
       IN  /\ get(root, log[1].key) = log[1].value
           /\ get(root, log[2].key) = log[2].value
           /\ TopBranch(root).type = "branch"
           /\ TopBranch(root).value = short.value

\* C5 (no phantom keys): get(k) returns a value only if a key with exactly
\* k's nibble sequence was inserted.
\* Violated: after insert("11", v), insert("21", w), get("1") returns v.
C5_NoPhantomKeys ==
  \A k \in QueryKeys :
    get(root, k) # null => stringToNibbles(k) \in InsertedNibbles(log)

\* C6 (hash determinism): inserting the same pairs, with distinct keys, in
\* any other order gives the same root hash.
\* Violated: the tree shape depends on the order of the inserts.
C6_HashDeterminism ==
  (\A i, j \in 1..Len(log) :
     i # j => stringToNibbles(log[i].key) # stringToNibbles(log[j].key))
    => \A p \in Permutations(1..Len(log)) :
         getRootHash(RootAfter(NullNode, [i \in 1..Len(log) |-> log[p[i]]]))
           = getRootHash(root)

\* C7 (hash idempotence): when k is stored with v, insert(k, v) leaves
\* getRootHash() unchanged.
\* Violated when k's leaf was placed into an empty branch slot.
C7_HashIdempotence ==
  (/\ Len(log) > 0
   /\ StoredWith(prev, Earlier, LastInsert.key, LastInsert.value))
    => getRootHash(root) = getRootHash(prev)

\* C8 (prefix scenario): after the driver's four inserts in the driver's
\* order the root is an Extension over a7 on a Branch with exactly slots 1, 7
\* and f occupied, slot 7 an Extension over d3 on a Branch with exactly slots
\* 3 and 9 occupied; get returns each key's value and get("xyz") is absent.
C8_PrefixScenario ==
  log = DemoLog =>
    /\ root.type = "extension"
    /\ root.sharedNibbles = <<"a", "7">>
    /\ root.nextNode.type = "branch"
    /\ Occupied(root.nextNode) = {1, 7, 15}
    /\ root.nextNode.children[7].type = "extension"
    /\ root.nextNode.children[7].sharedNibbles = <<"d", "3">>
    /\ root.nextNode.children[7].nextNode.type = "branch"
    /\ Occupied(root.nextNode.children[7].nextNode) = {3, 9}
    /\ \A i \in 1..4 : get(root, DemoKeys[i]) = DemoValues[i]
    /\ get(root, <<"x", "y", "z">>) = null

\* the driver's four inserts were made in order; the last key is found and
\* "xyz" is not
C8_Witness ==
  /\ log = DemoLog
  /\ get(root, DemoKeys[4]) = DemoValues[4]
  /\ get(root, <<"x", "y", "z">>) = null

\* C9 (empty trie): the root is null exactly when insert was never called;
\* then getRootHash() is the hash of the empty string and get is absent for
\* every key.
C9_EmptyTrie ==
  /\ IsNull(root) <=> log = <<>>
  /\ IsNull(root) =>
       /\ getRootHash(root) = keccak256(<<>>)
       /\ \A k \in QueryKeys : get(root, k) = null

\* the first insert has been made: the root was null before it and is not
\* after it
C9_Witness == Len(log) = 1 /\ IsNull(prev) /\ ~IsNull(root)

\* C10 (path invariant): for every leaf, the extensions' runs, the branches'
\* slot nibbles and the leaf's run along its path make the nibble sequence of
\* an inserted key.
\* Violated: a leaf placed into an empty branch slot repeats the slot nibble.
C10_PathInvariant == LeafPaths(root) \subseteq InsertedNibbles(log)

\* C11 (shape preservation on re-insert): inserting a key that is already
\* stored leaves the tree shape unchanged; only the stored value is replaced.
\* Violated when the key's leaf was placed into an empty branch slot: the
\* re-insert turns the leaf into a branch.
C11_ShapePreserved ==
  (/\ Len(log) > 0
   /\ \E v \in Values : StoredWith(prev, Earlier, LastInsert.key, v))
    => Shape(root) = Shape(prev)

\* C12 (branch occupancy): after every insert every Branch has at least two
\* occupants, counting its non-empty slots and its own value.
\* Violated: a split where one key ends at the branch leaves one child and
\* no value.
C12_BranchOccupancy == \A b \in Branches(root) : Occupants(b) >= 2

\* C13 (branch hash is slot-sensitive): a trie whose root is a Branch and the
\* trie built by the same inserts with every key moved to another slot of
\* the root branch (first digit 1 -> 3, 2 -> 4) have different root hashes.
\* Violated: empty slots add nothing to the hashed content, so the position
\* of a child is not hashed.
C13_SlotSensitiveHash ==
  (/\ root.type = "branch"
   /\ \A i \in 1..Len(log) : Len(log[i].key) > 0 /\ log[i].key[1] \in {"1", "2"})
    => getRootHash(RootAfter(NullNode, ShiftLog(log))) # getRootHash(root)

\* C14 (extension split with prefix termination): when insert reaches an
\* Extension whose shared run the remaining key is a strict prefix of, the
\* new Branch carries the value: get of the key returns it, and every other
\* key that was retrievable still is.
\* Violated: the split creates no child and sets no value for the new key.
C14_ExtensionSplitPrefix ==
  (/\ Len(log) > 0
   /\ EndsInsideExtension(prev, stringToNibbles(LastInsert.key)))
    => /\ get(root, LastInsert.key) = LastInsert.value
       /\ \A k \in QueryKeys :
            (/\ stringToNibbles(k) # stringToNibbles(LastInsert.key)
             /\ get(prev, k) # null)
              => get(root, k) = get(prev, k)

\* C15 (extension run invariant): every Extension of the trie has a
\* non-empty shared run.
C15_ExtensionRunNonEmpty ==
  \A e \in Extensions(root) : Len(e.sharedNibbles) > 0

\* the last insert split the root Extension, whose run had more than one
\* nibble, at its first nibble: the root is now a Branch and the old child
\* sits in one of its slots under an Extension over the rest of the old run
C15_Witness ==
  /\ Len(log) > 0
  /\ prev.type = "extension"
  /\ Len(prev.sharedNibbles) > 1
  /\ root.type = "branch"
  /\ Extensions(prev.nextNode) = {}
  /\ Extensions(root) # {}

====
